---- MODULE Spec2Model ----
(***************************************************************************)
(* Model of WebhookProcessor (webhook_processor.py): the merge-to-main     *)
(* gate, the extraction of the pull-request record, the two enrichments    *)
(* (changed-files fetch and LLM summary), the optional payload file and    *)
(* the two best-effort database inserts.                                   *)
(*                                                                         *)
(* Python values are tagged records so that None, strings, booleans,       *)
(* integers and dicts can be told apart the way the interpreter does:      *)
(*   [t |-> "null"], [t |-> "str", v |-> s], [t |-> "bool", v |-> b],      *)
(*   [t |-> "int", v |-> n], [t |-> "obj", v |-> f]  (f: key -> value).    *)
(* A key that is missing from a dict is missing from DOMAIN f.             *)
(* File names of changed files are sequences of one-character strings, so  *)
(* that startswith / endswith are computed on characters.                  *)
(***************************************************************************)
EXTENDS Integers, Sequences, FiniteSets, TLC

----------------------------------------------------------------------------
(* Bounds of the model *)

NumInvocations == 2   \* overlapping webhook deliveries (SpecConcurrent)
MaxFiles == 2         \* entries in a files response (Spec)
MaxFilterLen == 3     \* entries in a files list given to the filter (SpecFilter)
MaxClock == 2         \* last clock tick
TicksPerSecond == 2   \* clock ticks that share one %S second

Invocations == 1..NumInvocations

----------------------------------------------------------------------------
(* Python / JSON values *)

None == [t |-> "null"]
Str(s) == [t |-> "str", v |-> s]
Bool(b) == [t |-> "bool", v |-> b]
Num(n) == [t |-> "int", v |-> n]
Obj(f) == [t |-> "obj", v |-> f]
EmptyObj == Obj(<<>>)

IsObj(x) == x.t = "obj"

\* dict.get(key, default); only defined on dicts (anything else raises
\* AttributeError, which the callers test with IsObj first)
Get(d, k, default) == IF k \in DOMAIN d.v THEN d.v[k] ELSE default

\* Python truthiness (`if x`, `not x`, `x or y`)
Truthy(x) ==
  CASE x.t = "null" -> FALSE
    [] x.t = "bool" -> x.v
    [] x.t = "int"  -> x.v # 0
    [] x.t = "str"  -> x.v # ""
    [] x.t = "obj"  -> DOMAIN x.v # {}
    [] OTHER        -> TRUE

\* Python `==` on the values above
PyEq(a, b) == a.t = b.t /\ (a.t = "null" \/ a.v = b.v)

\* Python `x is True`
IsTrue(x) == x.t = "bool" /\ x.v = TRUE

----------------------------------------------------------------------------
(* str.startswith / str.endswith on character sequences *)

StartsWith(s, prefix) ==
  /\ Len(s) >= Len(prefix)
  /\ SubSeq(s, 1, Len(prefix)) = prefix

EndsWith(s, suffix) ==
  /\ Len(s) >= Len(suffix)
  /\ SubSeq(s, Len(s) - Len(suffix) + 1, Len(s)) = suffix

ModelsPrefix == <<"m", "o", "d", "e", "l", "s", "/">>
SqlSuffix == <<".", "s", "q", "l">>

\* file.get('filename', '') of one entry of the files response
FilenameOf(file) == IF "filename" \in DOMAIN file THEN file.filename ELSE <<>>

\* A filter that only tests the suffix
RECURSIVE filter_sql_model_files_suffix_only(_)
filter_sql_model_files_suffix_only(files) ==
  IF files = <<>> THEN <<>>
  ELSE LET name == FilenameOf(Head(files))
           rest == filter_sql_model_files_suffix_only(Tail(files))
       IN IF EndsWith(name, SqlSuffix) THEN <<name>> \o rest ELSE rest

\* filter_sql_model_files: the list comprehension, entry by entry
RECURSIVE filter_sql_model_files(_)
filter_sql_model_files(files) ==
  IF files = <<>> THEN <<>>
  ELSE LET name == FilenameOf(Head(files))
           rest == filter_sql_model_files(Tail(files))
       IN IF StartsWith(name, ModelsPrefix) /\ EndsWith(name, SqlSuffix)
          THEN <<name>> \o rest
          ELSE rest

----------------------------------------------------------------------------
(* The gate of process_webhook *)

\* base_branch = payload.get('pull_request', {}).get('base', {}).get('ref', '')
\* raises AttributeError when pull_request or base is present but not a dict
BaseBranchRaises(payload) ==
  LET pr == Get(payload, "pull_request", EmptyObj)
  IN \/ ~IsObj(pr)
     \/ ~IsObj(Get(pr, "base", EmptyObj))

base_branch(payload) ==
  Get(Get(Get(payload, "pull_request", EmptyObj), "base", EmptyObj), "ref", Str(""))

\* is_merge_to_main, evaluated after base_branch was computed
is_merge_to_main(payload) ==
  /\ PyEq(Get(payload, "action", None), Str("closed"))
  /\ IsTrue(Get(Get(payload, "pull_request", EmptyObj), "merged", None))
  /\ \/ PyEq(base_branch(payload), Str("main"))
     \/ PyEq(base_branch(payload), Str("master"))

----------------------------------------------------------------------------
(* extract_pr_data: a PullRequestData record, or None *)

\* an exception inside the try block: .get called on something that is not a dict
ExtractRaises(payload) ==
  LET pr == Get(payload, "pull_request", EmptyObj)
      repository == Get(payload, "repository", EmptyObj)
  IN \/ ~IsObj(pr)
     \/ ~IsObj(Get(pr, "user", EmptyObj))
     \/ ~IsObj(repository)
     \/ ~IsObj(Get(repository, "owner", EmptyObj))

extract_pr_data(payload) ==
  LET pr == Get(payload, "pull_request", EmptyObj)
      repository == Get(payload, "repository", EmptyObj)
  IN IF ~Truthy(pr) THEN None
     ELSE IF ExtractRaises(payload) THEN None
     ELSE [t |-> "PullRequestData",
           v |-> [pr_number   |-> Get(pr, "number", None),
                  title       |-> Get(pr, "title", Str("")),
                  description |-> IF Truthy(Get(pr, "body", None))
                                  THEN Get(pr, "body", None) ELSE Str(""),
                  url         |-> Get(pr, "url", Str("")),
                  creator     |-> Get(Get(pr, "user", EmptyObj), "login", Str("")),
                  created_at  |-> Get(pr, "created_at", Str("")),
                  html_url    |-> Get(pr, "html_url", Str("")),
                  repo_owner  |-> Get(Get(repository, "owner", EmptyObj), "login", Str("")),
                  repo_name   |-> Get(repository, "name", Str(""))]]

\* _build_pr_data_dict: the dict stored under result['pr_data']
_build_pr_data_dict(pr_data) ==
  [pr_number  |-> pr_data.pr_number,
   title      |-> pr_data.title,
   creator    |-> pr_data.creator,
   created_at |-> pr_data.created_at,
   html_url   |-> pr_data.html_url,
   repo_owner |-> pr_data.repo_owner,
   repo_name  |-> pr_data.repo_name]

\* the result dict as process_webhook first builds it
InitialResult(pr_data) ==
  [file_path       |-> None,
   summary         |-> None,
   pr_data         |-> _build_pr_data_dict(pr_data),
   sql_model_files |-> <<>>]

----------------------------------------------------------------------------
(* The enrichments *)

\* Outcomes of requests.get(...) + raise_for_status() + json()
FetchFailed == [kind |-> "error"]
FetchOk(files) == [kind |-> "ok", files |-> files]

\* fetch_pr_files: the list of entries, or None
fetch_pr_files(token, resp) ==
  IF ~token THEN None
  ELSE IF resp.kind = "ok" THEN [t |-> "list", v |-> resp.files]
  ELSE None

\* `if pr_files:` -- None and the empty list are both falsy
PrFilesTruthy(pr_files) == pr_files.t = "list" /\ pr_files.v # <<>>

\* Outcomes of openai_client.chat.completions.create(...)
LlmFailed == [kind |-> "error"]
LlmNoContent == [kind |-> "ok", content |-> ""]
LlmText == [kind |-> "ok", content |-> "Adds a model"]
LlmResponses == {LlmFailed, LlmNoContent, LlmText}

\* A summary generator that reports the provider error as the summary
generate_pr_summary_error_text(client, resp) ==
  IF ~client THEN None
  ELSE IF resp.kind = "ok" /\ resp.content # "" THEN Str(resp.content)
  ELSE IF resp.kind = "error" THEN Str("error")
  ELSE None

\* generate_pr_summary: the stripped content of the first choice, or None
generate_pr_summary(client, resp) ==
  IF ~client THEN None
  ELSE IF resp.kind = "ok" /\ resp.content # "" THEN Str(resp.content)
  ELSE None

----------------------------------------------------------------------------
(* The persistence sink *)

InsertOutcomes == {"data", "no_data", "raise"}

\* A sink that lets the exception of insert(...).execute() escape
save_to_supabase_no_except(outcome) ==
  [returned |-> (outcome = "data"), raised |-> (outcome = "raise")]

\* save_to_supabase once the client and the data are present: the value
\* returned for each outcome of insert(...).execute(); nothing is raised
save_to_supabase(outcome) ==
  [returned |-> (outcome = "data"), raised |-> FALSE]

\* A row builder that reads the summary under a key the result does not have
_prepare_pr_merge_data_no_summary(result_data) ==
  [k \in DOMAIN result_data.pr_data \cup {"summary", "file_path"} |->
     IF k = "summary" THEN None
     ELSE IF k = "file_path" THEN result_data.file_path
     ELSE result_data.pr_data[k]]

\* _prepare_pr_merge_data: {**pr_data, 'summary': ..., 'file_path': ...}
_prepare_pr_merge_data(result_data) ==
  [k \in DOMAIN result_data.pr_data \cup {"summary", "file_path"} |->
     IF k = "summary" THEN result_data.summary
     ELSE IF k = "file_path" THEN result_data.file_path
     ELSE result_data.pr_data[k]]

\* _build_dbt_model_changes_dict
_build_dbt_model_changes_dict(model_filename, pr_data, summary) ==
  [dbt_model_name |-> model_filename,
   pr_html_url    |-> pr_data.html_url,
   ai_summary     |-> summary,
   pr_created_at  |-> pr_data.created_at,
   pr_creator     |-> pr_data.creator]

\* A batch built back to front
model_changes_batch_reversed(result) ==
  [k \in 1..Len(result.sql_model_files) |->
     _build_dbt_model_changes_dict(
       result.sql_model_files[Len(result.sql_model_files) + 1 - k],
       result.pr_data, result.summary)]

\* model_changes_batch: one row per entry of result['sql_model_files']
model_changes_batch(result) ==
  [k \in 1..Len(result.sql_model_files) |->
     _build_dbt_model_changes_dict(result.sql_model_files[k],
                                   result.pr_data, result.summary)]

----------------------------------------------------------------------------
(* Payload files *)

\* datetime.now().strftime('%Y%m%d_%H%M%S'): the clock cut down to its second
strftime(now) == now \div TicksPerSecond

\* webhooks_dir / f'webhook_payload_{timestamp}.json'
PayloadPath(timestamp) == Str(<<"webhooks", "webhook_payload_", timestamp, ".json">>)

\* content of a file between open(..., 'w') and the write, and of a file
\* that two writers wrote over each other
EmptyFile == [t |-> "empty"]
Garbled == [t |-> "garbled"]

----------------------------------------------------------------------------
(* Inputs: webhook payloads and files responses *)

\* marks a key that a payload does not have
Missing == [t |-> "missing"]
Field(k, x) == IF x.t = "missing" THEN <<>> ELSE (k :> x)

ActionValues == {Str("closed"), Str("opened"), Missing}
MergedValues == {Bool(TRUE), Bool(FALSE), Num(1), Missing}
BaseValues == {Missing, None, EmptyObj,
               Obj([ref |-> Str("main")]), Obj([ref |-> Str("master")]),
               Obj([ref |-> Str("develop")])}
UserValues == {Obj([login |-> Str("alice")]), None}
BodyValues == {None, Str("desc")}

Repository == Obj([owner |-> Obj([login |-> Str("org")]), name |-> Str("repo")])

PullRequestObj(merged, base, user, body) ==
  Obj([number |-> Num(42), title |-> Str("Add model"), body |-> body, user |-> user]
      @@ Field("merged", merged) @@ Field("base", base))

PullRequestValues ==
  {Missing, None, EmptyObj}
  \cup {PullRequestObj(m, b, u, d) :
          m \in MergedValues, b \in BaseValues, u \in UserValues, d \in BodyValues}

MkPayload(action, pr) ==
  Obj([repository |-> Repository] @@ Field("action", action) @@ Field("pull_request", pr))

Payloads == {MkPayload(a, pr) : a \in ActionValues, pr \in PullRequestValues}

\* the payload of the end-to-end scenario: merged pull request 42 of alice into `ref`
MergePayload(ref, body) ==
  MkPayload(Str("closed"),
            PullRequestObj(Bool(TRUE), Obj([ref |-> Str(ref)]),
                           Obj([login |-> Str("alice")]), body))

ModelA == <<"m", "o", "d", "e", "l", "s", "/", "a", ".", "s", "q", "l">>
ModelSubB == <<"m", "o", "d", "e", "l", "s", "/", "s", "u", "b", "/", "b", ".", "s", "q", "l">>
Readme == <<"R", "E", "A", "D", "M", "E", ".", "m", "d">>
SchemaYml == <<"m", "o", "d", "e", "l", "s", "/", "s", ".", "y", "m", "l">>
MacroSql == <<"m", "a", "c", "r", "o", "s", "/", "c", ".", "s", "q", "l">>

\* entries of the files response; the last one has no filename key
FileEntries ==
  {[filename |-> ModelA], [filename |-> ModelSubB], [filename |-> Readme],
   [filename |-> SchemaYml], [filename |-> MacroSql], [status |-> "modified"]}

\* the entries the host answers with in Spec and SpecConcurrent
FetchedEntries ==
  {[filename |-> ModelA], [filename |-> ModelSubB], [filename |-> MacroSql],
   [status |-> "modified"]}

FileLists(entries, n) == UNION {[1..k -> entries] : k \in 0..n}

\* webhooks/webhook_payload_20251002_175804.json, the sample the test loads:
\* a payload file written before the clock of the model starts
SampleTimestamp == 0 - 1
JsonFile(doc) == [t |-> "json", doc |-> doc]

----------------------------------------------------------------------------
(* State *)

VARIABLES
  development_mode,  \* self.development_mode
  save_payload,      \* self.save_payload
  openai_client,     \* self.openai_client is not None
  supabase_client,   \* self.supabase_client is not None
  github_token,      \* self.github_token is set
  now,               \* datetime.now(), in ticks
  fs,                \* the files of webhooks_dir: path -> content
  pc,                \* position of each invocation
  payload,           \* argument of process_webhook
  pr_data,           \* local pr_data of process_webhook
  pr_files,          \* local pr_files of process_webhook
  result,            \* local result dict of process_webhook
  open_path,         \* file_path of save_webhook_payload while the file is open
  ret,               \* value returned by the call
  raised,            \* exception that left the call
  inserts,           \* calls of table(...).insert(...).execute(), in order
  fetch_resp,        \* what requests.get answered
  llm_resp,          \* what chat.completions.create answered
  effects            \* steps the invocation has performed

config == <<development_mode, save_payload, openai_client, supabase_client, github_token>>
locals == <<payload, pr_data, pr_files, result, open_path, ret, raised>>
history == <<inserts, fetch_resp, llm_resp, effects>>
vars == <<config, now, fs, pc, locals, history>>

NoResponse == [kind |-> "none"]
NoException == "none"

InitInvocations ==
  /\ pc = [i \in Invocations |-> "idle"]
  /\ payload = [i \in Invocations |-> None]
  /\ pr_data = [i \in Invocations |-> None]
  /\ pr_files = [i \in Invocations |-> None]
  /\ result = [i \in Invocations |-> None]
  /\ open_path = [i \in Invocations |-> None]
  /\ ret = [i \in Invocations |-> None]
  /\ raised = [i \in Invocations |-> NoException]
  /\ inserts = [i \in Invocations |-> <<>>]
  /\ fetch_resp = [i \in Invocations |-> NoResponse]
  /\ llm_resp = [i \in Invocations |-> NoResponse]
  /\ effects = [i \in Invocations |-> {}]

InitFiles ==
  /\ now = 0
  /\ fs = (PayloadPath(SampleTimestamp) :> JsonFile(MergePayload("main", Str("desc"))))

\* WebhookProcessor.__init__: the flags are arguments, the clients depend on
\* which environment variables are set
Init ==
  /\ development_mode \in BOOLEAN
  /\ save_payload \in BOOLEAN
  /\ openai_client \in BOOLEAN
  /\ supabase_client \in BOOLEAN
  /\ github_token \in BOOLEAN
  /\ InitFiles
  /\ InitInvocations

----------------------------------------------------------------------------
(* Operations *)

\* a caller hands a payload to process_webhook
ProcessWebhook(i, p) ==
  /\ pc[i] = "idle"
  /\ payload' = [payload EXCEPT ![i] = p]
  /\ pc' = [pc EXCEPT ![i] = "received"]
  /\ UNCHANGED <<config, now, fs, pr_data, pr_files, result, open_path, ret, raised, history>>

\* process_local_file: refuses outside development mode, raises
\* FileNotFoundError for a missing file, else loads the JSON document and
\* hands it to process_webhook
ProcessLocalFile(i, path) ==
  /\ pc[i] = "idle"
  /\ IF ~development_mode
     THEN /\ pc' = [pc EXCEPT ![i] = "refused"]
          /\ UNCHANGED <<payload, raised>>
     ELSE IF path \notin DOMAIN fs
     THEN /\ pc' = [pc EXCEPT ![i] = "raised"]
          /\ raised' = [raised EXCEPT ![i] = "FileNotFoundError"]
          /\ UNCHANGED payload
     ELSE IF fs[path].t # "json"
     THEN /\ pc' = [pc EXCEPT ![i] = "raised"]
          /\ raised' = [raised EXCEPT ![i] = "JSONDecodeError"]
          /\ UNCHANGED payload
     ELSE /\ payload' = [payload EXCEPT ![i] = fs[path].doc]
          /\ pc' = [pc EXCEPT ![i] = "received"]
          /\ UNCHANGED raised
  /\ UNCHANGED <<config, now, fs, pr_data, pr_files, result, open_path, ret, history>>

\* the gate: base_branch, is_merge_to_main, early return of None
Gate(i) ==
  /\ pc[i] = "received"
  /\ IF BaseBranchRaises(payload[i])
     THEN /\ pc' = [pc EXCEPT ![i] = "raised"]
          /\ raised' = [raised EXCEPT ![i] = "AttributeError"]
     ELSE /\ pc' = [pc EXCEPT ![i] =
                      IF is_merge_to_main(payload[i]) THEN "gated" ELSE "rejected"]
          /\ UNCHANGED raised
  /\ UNCHANGED <<config, now, fs, payload, pr_data, pr_files, result, open_path, ret, history>>

\* pr_data = self.extract_pr_data(payload); early return of None; result = {...}
ExtractPrData(i) ==
  /\ pc[i] = "gated"
  /\ pr_data' = [pr_data EXCEPT ![i] = extract_pr_data(payload[i])]
  /\ effects' = [effects EXCEPT ![i] = @ \cup {"extraction"}]
  /\ IF ~Truthy(pr_data'[i])
     THEN /\ pc' = [pc EXCEPT ![i] = "no_pr_data"]
          /\ UNCHANGED result
     ELSE /\ pc' = [pc EXCEPT ![i] = "extracted"]
          /\ result' = [result EXCEPT ![i] = InitialResult(pr_data'[i].v)]
  /\ UNCHANGED <<config, now, fs, payload, pr_files, open_path, ret, raised,
                 inserts, fetch_resp, llm_resp>>

\* pr_files = self.fetch_pr_files(...); if pr_files: result['sql_model_files'] = ...
\* Lists is the set of file lists the host may answer with
FetchPrFiles(i, Lists) ==
  /\ pc[i] = "extracted"
  /\ \E resp \in IF github_token THEN {FetchFailed} \cup {FetchOk(l) : l \in Lists}
                 ELSE {NoResponse} :
       /\ fetch_resp' = [fetch_resp EXCEPT ![i] = resp]
       /\ pr_files' = [pr_files EXCEPT ![i] = fetch_pr_files(github_token, resp)]
  /\ effects' = [effects EXCEPT ![i] =
                   IF github_token THEN @ \cup {"files_request"} ELSE @]
  /\ result' = [result EXCEPT ![i].sql_model_files =
                  IF PrFilesTruthy(pr_files'[i])
                  THEN filter_sql_model_files(pr_files'[i].v) ELSE @]
  /\ pc' = [pc EXCEPT ![i] = "fetched"]
  /\ UNCHANGED <<config, now, fs, payload, pr_data, open_path, ret, raised,
                 inserts, llm_resp>>

\* if self.openai_client: summary = self.generate_pr_summary(pr_data); if summary: ...
GeneratePrSummary(i) ==
  /\ pc[i] = "fetched"
  /\ \E resp \in IF openai_client THEN LlmResponses ELSE {NoResponse} :
       /\ llm_resp' = [llm_resp EXCEPT ![i] = resp]
       /\ LET summary == generate_pr_summary(openai_client, resp)
          IN result' = [result EXCEPT ![i].summary =
                          IF openai_client /\ Truthy(summary) THEN summary ELSE @]
  /\ effects' = [effects EXCEPT ![i] =
                   IF openai_client THEN @ \cup {"llm_request"} ELSE @]
  /\ pc' = [pc EXCEPT ![i] = "enriched"]
  /\ UNCHANGED <<config, now, fs, payload, pr_data, pr_files, open_path, ret, raised,
                 inserts, fetch_resp>>

\* if self.save_payload: save_webhook_payload up to open(file_path, 'w'),
\* which creates or truncates the file named after the current second
SaveOpen(i) ==
  /\ pc[i] = "enriched"
  /\ IF save_payload
     THEN LET path == PayloadPath(strftime(now))
          IN /\ open_path' = [open_path EXCEPT ![i] = path]
             /\ fs' = [f \in DOMAIN fs \cup {path} |->
                         IF f = path THEN EmptyFile ELSE fs[f]]
             /\ effects' = [effects EXCEPT ![i] = @ \cup {"payload_write"}]
             /\ pc' = [pc EXCEPT ![i] = "writing"]
     ELSE /\ pc' = [pc EXCEPT ![i] = "saved"]
          /\ UNCHANGED <<open_path, fs, effects>>
  /\ UNCHANGED <<config, now, payload, pr_data, pr_files, result, ret, raised,
                 inserts, fetch_resp, llm_resp>>

\* json.dump(payload, f), close, result['file_path'] = str(file_path).
\* A writer that finds bytes written after its own truncation writes over
\* them from offset 0: the file holds its document or a mix of the two.
SaveDump(i) ==
  /\ pc[i] = "writing"
  /\ \E content \in IF fs[open_path[i]] = EmptyFile
                    THEN {JsonFile(payload[i])}
                    ELSE {JsonFile(payload[i]), Garbled} :
       fs' = [fs EXCEPT ![open_path[i]] = content]
  /\ result' = [result EXCEPT ![i].file_path = open_path[i]]
  /\ pc' = [pc EXCEPT ![i] = "saved"]
  /\ UNCHANGED <<config, now, payload, pr_data, pr_files, open_path, ret, raised, history>>

\* _save_to_database, first half: return when there is no client, else the
\* insert of the github_pr_merge row
SavePrMerge(i) ==
  /\ pc[i] = "saved"
  /\ IF ~supabase_client
     THEN /\ pc' = [pc EXCEPT ![i] = "done"]
          /\ ret' = [ret EXCEPT ![i] = result[i]]
          /\ UNCHANGED <<raised, inserts, effects>>
     ELSE \E outcome \in InsertOutcomes :
            /\ inserts' = [inserts EXCEPT ![i] =
                 Append(@, [table |-> "github_pr_merge",
                            rows |-> <<_prepare_pr_merge_data(result[i])>>,
                            outcome |-> outcome])]
            /\ effects' = [effects EXCEPT ![i] = @ \cup {"db_insert"}]
            /\ IF save_to_supabase(outcome).raised
               THEN /\ pc' = [pc EXCEPT ![i] = "raised"]
                    /\ raised' = [raised EXCEPT ![i] = "Exception"]
               ELSE /\ pc' = [pc EXCEPT ![i] = "pr_saved"]
                    /\ UNCHANGED raised
            /\ UNCHANGED ret
  /\ UNCHANGED <<config, now, fs, payload, pr_data, pr_files, result, open_path,
                 fetch_resp, llm_resp>>

\* _save_to_database, second half: the batch insert into dbt_model_changes
\* when result['sql_model_files'] is not empty; then return result
SaveModelChanges(i) ==
  /\ pc[i] = "pr_saved"
  /\ IF result[i].sql_model_files # <<>>
     THEN \E outcome \in InsertOutcomes :
            /\ inserts' = [inserts EXCEPT ![i] =
                 Append(@, [table |-> "dbt_model_changes",
                            rows |-> model_changes_batch(result[i]),
                            outcome |-> outcome])]
            /\ IF save_to_supabase(outcome).raised
               THEN /\ pc' = [pc EXCEPT ![i] = "raised"]
                    /\ raised' = [raised EXCEPT ![i] = "Exception"]
                    /\ UNCHANGED ret
               ELSE /\ pc' = [pc EXCEPT ![i] = "done"]
                    /\ ret' = [ret EXCEPT ![i] = result[i]]
                    /\ UNCHANGED raised
     ELSE /\ pc' = [pc EXCEPT ![i] = "done"]
          /\ ret' = [ret EXCEPT ![i] = result[i]]
          /\ UNCHANGED <<raised, inserts>>
  /\ UNCHANGED <<config, now, fs, payload, pr_data, pr_files, result, open_path,
                 fetch_resp, llm_resp, effects>>

\* the wall clock advances
Tick ==
  /\ now < MaxClock
  /\ now' = now + 1
  /\ UNCHANGED <<config, fs, pc, locals, history>>

----------------------------------------------------------------------------
(* Specifications *)

\* the paths process_local_file is called with: the sample and a missing file
LocalPaths == {PayloadPath(SampleTimestamp), PayloadPath(SampleTimestamp - 1)}

\* one invocation, every payload, every configuration, every answer of the
\* three services
Next ==
  \/ \E p \in Payloads : ProcessWebhook(1, p)
  \/ \E path \in LocalPaths : ProcessLocalFile(1, path)
  \/ Gate(1)
  \/ ExtractPrData(1)
  \/ FetchPrFiles(1, FileLists(FetchedEntries, MaxFiles))
  \/ GeneratePrSummary(1)
  \/ SaveOpen(1)
  \/ SaveDump(1)
  \/ SavePrMerge(1)
  \/ SaveModelChanges(1)
  \/ Tick

Spec == Init /\ [][Next]_vars

\* the filter on every files list up to MaxFilterLen entries: one invocation
\* of the end-to-end payload on a processor that has only the host token
InitFilter ==
  /\ development_mode = FALSE
  /\ save_payload = FALSE
  /\ openai_client = FALSE
  /\ supabase_client = FALSE
  /\ github_token = TRUE
  /\ InitFiles
  /\ InitInvocations

NextFilter ==
  \/ ProcessWebhook(1, MergePayload("main", Str("desc")))
  \/ Gate(1)
  \/ ExtractPrData(1)
  \/ FetchPrFiles(1, FileLists(FileEntries, MaxFilterLen))

SpecFilter == InitFilter /\ [][NextFilter]_vars

\* overlapping invocations on one processor that saves payloads, with or
\* without a database client and with no other credential: the invocations
\* share the clock and the webhooks directory
ConcurrentPayloads ==
  {MergePayload("main", Str("desc")), MergePayload("master", None),
   MkPayload(Str("opened"), PullRequestObj(Bool(FALSE), Obj([ref |-> Str("main")]),
                                           Obj([login |-> Str("alice")]), None))}

InitConcurrent ==
  /\ development_mode = FALSE
  /\ save_payload = TRUE
  /\ openai_client = FALSE
  /\ supabase_client \in BOOLEAN
  /\ github_token = FALSE
  /\ InitFiles
  /\ InitInvocations

NextConcurrent ==
  \/ \E i \in Invocations : \E p \in ConcurrentPayloads : ProcessWebhook(i, p)
  \/ \E i \in Invocations : Gate(i)
  \/ \E i \in Invocations : ExtractPrData(i)
  \/ \E i \in Invocations : FetchPrFiles(i, FileLists(FetchedEntries, MaxFiles))
  \/ \E i \in Invocations : GeneratePrSummary(i)
  \/ \E i \in Invocations : SaveOpen(i)
  \/ \E i \in Invocations : SaveDump(i)
  \/ \E i \in Invocations : SavePrMerge(i)
  \/ \E i \in Invocations : SaveModelChanges(i)
  \/ Tick

SpecConcurrent == InitConcurrent /\ [][NextConcurrent]_vars

----------------------------------------------------------------------------
(* Vocabulary of the properties, stated on the payload and on the recorded *)
(* answers of the services rather than with the operators above            *)

HasKey(d, k) == d.t = "obj" /\ k \in DOMAIN d.v

ActionIsClosed(p) == HasKey(p, "action") /\ p.v.action = Str("closed")

MergedIsTrue(p) ==
  /\ HasKey(p, "pull_request")
  /\ HasKey(p.v.pull_request, "merged")
  /\ p.v.pull_request.v.merged = Bool(TRUE)

BaseRefIsMain(p) ==
  /\ HasKey(p, "pull_request")
  /\ HasKey(p.v.pull_request, "base")
  /\ HasKey(p.v.pull_request.v.base, "ref")
  /\ p.v.pull_request.v.base.v.ref \in {Str("main"), Str("master")}

MergeToMain(p) == ActionIsClosed(p) /\ MergedIsTrue(p) /\ BaseRefIsMain(p)

\* the call has been given a payload
Called(i) == payload[i].t = "obj"

AfterExtraction == {"extracted", "fetched", "enriched", "writing", "saved", "pr_saved", "done"}
AfterEnrichment == {"enriched", "writing", "saved", "pr_saved", "done"}

InsertsOn(i, table) == {k \in 1..Len(inserts[i]) : inserts[i][k].table = table}

MatchesModelSql(name) ==
  /\ Len(name) >= 7
  /\ <<name[1], name[2], name[3], name[4], name[5], name[6], name[7]>>
       = <<"m", "o", "d", "e", "l", "s", "/">>
  /\ Len(name) >= 4
  /\ <<name[Len(name) - 3], name[Len(name) - 2], name[Len(name) - 1], name[Len(name)]>>
       = <<".", "s", "q", "l">>

EntryMatches(file) == "filename" \in DOMAIN file /\ MatchesModelSql(file.filename)

\* out is the list of the filenames of the matching entries of files, in
\* the order and with the multiplicity of files
IsFiltered(files, out) ==
  \E f \in [1..Len(out) -> 1..Len(files)] :
    /\ \A a, b \in 1..Len(out) : a < b => f[a] < f[b]
    /\ {f[a] : a \in 1..Len(out)} = {j \in 1..Len(files) : EntryMatches(files[j])}
    /\ \A a \in 1..Len(out) : out[a] = files[f[a]].filename

----------------------------------------------------------------------------
(* C1 *)

\* C1: a payload that is not a merged pull request closed into main or
\* master makes process_webhook return None without raising and without any
\* extraction, files request, LLM request, payload write or database insert.
C1_RejectedWithoutEffect ==
  (Called(1) /\ ~MergeToMain(payload[1])) =>
     /\ pc[1] \in {"received", "rejected"}
     /\ raised[1] = NoException
     /\ ret[1] = None
     /\ effects[1] = {}
     /\ inserts[1] = <<>>

----------------------------------------------------------------------------
(* C2 *)

----------------------------------------------------------------------------
(* C3 *)

\* C3: after the enrichments, a files fetch that failed or had no token
\* leaves sql_model_files empty while the summary is whatever the LLM call
\* produced; an absent LLM client or a failed summary call leaves summary
\* None while sql_model_files is the filtered answer of the files fetch.
C3_EnrichmentsIndependent ==
  pc[1] \in AfterEnrichment =>
     /\ fetch_resp[1].kind \in {"none", "error"} =>
          /\ result[1].sql_model_files = <<>>
          /\ openai_client => "llm_request" \in effects[1]
          /\ llm_resp[1] = LlmText => result[1].summary = Str(LlmText.content)
     /\ llm_resp[1].kind \in {"none", "error"} =>
          /\ result[1].summary = None
          /\ github_token => "files_request" \in effects[1]
          /\ fetch_resp[1].kind = "ok" =>
               IsFiltered(fetch_resp[1].files, result[1].sql_model_files)

\* the summary call failed and the SQL model files of the fetch are kept
C3_Witness ==
  /\ pc[1] = "done"
  /\ llm_resp[1] = LlmFailed
  /\ result[1].summary = None
  /\ Len(result[1].sql_model_files) = 2

----------------------------------------------------------------------------
(* C4 *)

\* C4: with the host, the LLM and the database all succeeding, the result
\* of an accepted payload carries the payload's number and user.login, a
\* non-empty summary and saved_to_database = true.
C4_EndToEndResult ==
  (/\ pc[1] = "done"
   /\ fetch_resp[1].kind = "ok"
   /\ llm_resp[1] = LlmText
   /\ inserts[1] # <<>>
   /\ \A k \in 1..Len(inserts[1]) : inserts[1][k].outcome = "data") =>
     /\ ret[1].pr_data.pr_number = payload[1].v.pull_request.v.number
     /\ ret[1].pr_data.creator = payload[1].v.pull_request.v.user.v.login
     /\ Truthy(ret[1].summary)
     /\ "saved_to_database" \in DOMAIN ret[1]
     /\ ret[1].saved_to_database = TRUE

----------------------------------------------------------------------------
(* C5 *)

\* C5: on a processor built with development_mode=True and
\* save_payload=False, an accepted payload yields a result with the keys
\* file_path, summary and pr_data whose file_path names an existing file.
C5_TestExpectsPayloadFile ==
  (pc[1] = "done" /\ development_mode /\ ~save_payload) =>
     /\ ret[1] # None
     /\ {"file_path", "summary", "pr_data"} \subseteq DOMAIN ret[1]
     /\ ret[1].file_path # None
     /\ ret[1].file_path \in DOMAIN fs

----------------------------------------------------------------------------
(* C6 *)

\* C6: with payload saving on, when the invocations have finished, every
\* accepted invocation has a payload file of its own: its file_path names a
\* file that holds its payload, and no two invocations name the same file.
C6_OneFilePerInvocation ==
  (save_payload /\ \A i \in Invocations : pc[i] \in {"done", "rejected", "no_pr_data"}) =>
     \A i \in Invocations : pc[i] = "done" =>
        /\ ret[i].file_path \in DOMAIN fs
        /\ fs[ret[i].file_path] = JsonFile(payload[i])
        /\ \A j \in Invocations \ {i} :
             pc[j] = "done" => ret[j].file_path # ret[i].file_path

----------------------------------------------------------------------------
(* C7 *)

\* C7: the row inserted into github_pr_merge carries every field of the
\* extracted record, the summary and the saved-file path.
C7_PrMergeRowIsFullRecord ==
  \A k \in InsertsOn(1, "github_pr_merge") :
    LET row == inserts[1][k].rows[1]
    IN /\ DOMAIN pr_data[1].v \subseteq DOMAIN row
       /\ \A fld \in DOMAIN pr_data[1].v : row[fld] = pr_data[1].v[fld]
       /\ row.summary = result[1].summary
       /\ row.file_path = result[1].file_path

----------------------------------------------------------------------------
(* C8 *)

\* C8: an invocation issues at most one insert on each table; the insert
\* on dbt_model_changes is one batch with one row per filtered filename in
\* the order of the list, is not issued for an empty list, and is issued
\* whatever the outcome of the github_pr_merge insert.
C8_OneInsertPerTable ==
  /\ Cardinality(InsertsOn(1, "github_pr_merge")) <= 1
  /\ Cardinality(InsertsOn(1, "dbt_model_changes")) <= 1
  /\ \A k \in 1..Len(inserts[1]) :
       inserts[1][k].table \in {"github_pr_merge", "dbt_model_changes"}
  /\ \A k \in InsertsOn(1, "github_pr_merge") : Len(inserts[1][k].rows) = 1
  /\ \A k \in InsertsOn(1, "dbt_model_changes") :
       LET rows == inserts[1][k].rows
           names == result[1].sql_model_files
       IN /\ names # <<>>
          /\ Len(rows) = Len(names)
          /\ \A r \in 1..Len(rows) : rows[r].dbt_model_name = names[r]
  /\ (pc[1] = "done" /\ supabase_client) =>
       /\ Cardinality(InsertsOn(1, "github_pr_merge")) = 1
       /\ (InsertsOn(1, "dbt_model_changes") # {}) <=> (result[1].sql_model_files # <<>>)

\* the github_pr_merge insert raised and the batch of two rows was still issued
C8_Witness ==
  /\ pc[1] = "done"
  /\ Len(inserts[1]) = 2
  /\ inserts[1][1].table = "github_pr_merge"
  /\ inserts[1][1].outcome = "raise"
  /\ inserts[1][2].table = "dbt_model_changes"
  /\ Len(inserts[1][2].rows) = 2
  /\ inserts[1][2].rows[1].dbt_model_name # inserts[1][2].rows[2].dbt_model_name

----------------------------------------------------------------------------
(* C9 *)

SpecExample == <<[filename |-> ModelA], [filename |-> Readme], [filename |-> ModelSubB]>>

\* C9: the filter returns the filenames of the entries whose filename
\* starts with models/ and ends with .sql, in the order and multiplicity of
\* the input; models/a.sql, README.md, models/sub/b.sql gives
\* models/a.sql, models/sub/b.sql.
C9_FilterKeepsModelSql ==
  (pc[1] = "fetched" /\ fetch_resp[1].kind = "ok") =>
     /\ IsFiltered(fetch_resp[1].files, result[1].sql_model_files)
     /\ fetch_resp[1].files = SpecExample =>
          result[1].sql_model_files = <<ModelA, ModelSubB>>

\* a list with a matching entry, an entry matching only the suffix, an
\* entry without filename, and the matching entry kept
C9_Witness ==
  /\ pc[1] = "fetched"
  /\ fetch_resp[1].kind = "ok"
  /\ fetch_resp[1].files = <<[filename |-> MacroSql], [status |-> "modified"], [filename |-> ModelSubB]>>
  /\ result[1].sql_model_files = <<ModelSubB>>

----------------------------------------------------------------------------
(* C10 *)

\* the positions an invocation can move to from each position
StepsFrom(at) ==
  CASE at = "idle"      -> {"received", "refused", "raised"}
    [] at = "received"  -> {"gated", "rejected", "raised"}
    [] at = "gated"     -> {"extracted", "no_pr_data"}
    [] at = "extracted" -> {"fetched"}
    [] at = "fetched"   -> {"enriched"}
    [] at = "enriched"  -> {"writing", "saved"}
    [] at = "writing"   -> {"saved"}
    [] at = "saved"     -> {"pr_saved", "done"}
    [] at = "pr_saved"  -> {"done"}
    [] OTHER            -> {}

\* C10: the steps occur in the order gate, extraction, enrichment,
\* persistence, done; an insert is only issued once the files fetch, the
\* summary attempt and the payload save are over; the summary and file_path
\* of the inserted rows are those of the returned result.
C10_StepOrder ==
  /\ [][/\ pc'[1] # pc[1] => pc'[1] \in StepsFrom(pc[1])
        /\ inserts'[1] # inserts[1] =>
             /\ pc[1] \in {"saved", "pr_saved"}
             /\ result'[1] = result[1]
             /\ save_payload => result[1].file_path # None]_vars
  /\ [](pc[1] = "done" =>
          \A k \in 1..Len(inserts[1]) :
            \A r \in 1..Len(inserts[1][k].rows) :
              LET row == inserts[1][k].rows[r]
              IN IF inserts[1][k].table = "github_pr_merge"
                 THEN row.summary = ret[1].summary /\ row.file_path = ret[1].file_path
                 ELSE row.ai_summary = ret[1].summary)

\* both inserts issued for a result that has a summary and a payload file
C10_Witness ==
  /\ pc[1] = "done"
  /\ Len(inserts[1]) = 2
  /\ ret[1].summary # None
  /\ ret[1].file_path # None

====
